---- MODULE Spec2Model ----
(***************************************************************************)
(* Model of src/src/statemanager.js: the State tree and the StateManager   *)
(* with registerState, changeState and currentState.                      *)
(*                                                                         *)
(* A State object is identified by the sequence of property keys that     *)
(* leads to it from _worldState (root = << >>).  A JavaScript string is   *)
(* represented by the sequence of its '.'-separated fields, so '' is      *)
(* <<"">>, 'a' is <<"a">> and 'a.b' is <<"a", "b">>.                      *)
(***************************************************************************)
EXTENDS Naturals, Sequences, FiniteSets

\* ------------------------------------------------------------------ bounds
\* The most State objects registered under _worldState.
MaxNodes == 3

\* A property every plain object {} inherits from Object.prototype; its value
\* is a function, not a State.
ObjectPrototypeProps == {"toString"}

\* The JavaScript value undefined (as a name or a defaultSubstate).
Undefined == "<undefined>"

\* The '' string.
EmptyStr == <<"">>

\* The dotted paths the callers register and target: top-level siblings a, b;
\* the siblings a.a, a.b; and the siblings a.b.a, a.b.b.
PlainStrs ==
    {<<"a">>, <<"b">>, <<"a", "a">>, <<"a", "b">>,
     <<"a", "b", "a">>, <<"a", "b", "b">>}

\* Paths that use an inherited property name as a segment.
ProtoStrs ==
    UNION {{<<p>>, <<p, "a">>, <<"a", p>>} : p \in ObjectPrototypeProps}

\* The strings passed to registerState.
RegisterStrs == PlainStrs \cup ProtoStrs

\* The strings passed to changeState.
ChangeStrs == {EmptyStr} \cup PlainStrs \cup ProtoStrs

\* The context objects the callers pass: undefined, or an object with the two
\* callbacks and a defaultSubstate.
NoContext ==
    [defined |-> FALSE, enter |-> FALSE, exit |-> FALSE, defaultSubstate |-> Undefined]

DefaultNames == {"b"} \cup ObjectPrototypeProps

Contexts ==
    {NoContext} \cup
    [defined : {TRUE}, enter : {TRUE}, exit : {TRUE}, defaultSubstate : DefaultNames]

\* How deep changeState calls nest: a callback calls changeState only while
\* fewer than MaxDepth changeState calls made by callbacks are in progress.
MaxDepth == 1

\* No string (the callback calls nothing).
NoStr == << >>

\* What a callback does besides returning: nothing, or m.changeState(stateStr)
\* from the enter or from the exit callback.
NoCalls == [cb |-> "none", stateStr |-> NoStr]
CallbackCalls == {NoCalls} \cup [cb : {"enter", "exit"}, stateStr : {<<"b">>}]

\* The paths registered and targeted when callbacks call changeState.
ReentrantStrs == {<<"a">>, <<"b">>, <<"a", "b">>}

\* The contexts passed then: undefined, one with a defaultSubstate, and ones
\* whose enter or exit callback calls changeState.
ReentrantContexts ==
    {[defined |-> FALSE, enter |-> FALSE, exit |-> FALSE, defaultSubstate |-> Undefined,
      calls |-> NoCalls]} \cup
    {[defined |-> TRUE, enter |-> TRUE, exit |-> TRUE, defaultSubstate |-> "b",
      calls |-> NoCalls]} \cup
    [defined : {TRUE}, enter : {TRUE}, exit : {TRUE}, defaultSubstate : {Undefined},
     calls : CallbackCalls \ {NoCalls}]

\* ------------------------------------------------------------------ state
VARIABLES
    tree,        \* the State objects: path of keys |-> [_name, _context, enter, exit]
    currentPath, \* _currentStateDescr
    lastCall,    \* the last public method called, with its arguments
    outcome,     \* how the last call ended: "ok" or the exception thrown ("running" in its loop)
    log,         \* State.enter()/State.exit() invocations of the last call, in order
    prevTree,    \* the tree when the last call began
    prevPath,    \* _currentStateDescr when the last call began
    pc,          \* "idle", or "defaults" while changeState is in its loop of lines 173-180
    cursor,      \* changeState's local variable `state` while pc = "defaults"
    active,      \* the States whose last invocation, over all calls so far, was enter()
    alternates,  \* so far no State was entered while in `active` or exited while not
    failed       \* some changeState has thrown so far

\* The record kept of the invocations across calls (SpecHistory keeps it).
hist == <<active, alternates, failed>>

vars == <<tree, currentPath, lastCall, outcome, log, prevTree, prevPath, pc, cursor,
          active, alternates, failed>>

\* ------------------------------------------------------------------ State
\* The constructor: this.enter / this.exit are bound to the context's callback
\* when the context has one, else to _dummyFunc.
State(name, context) ==
    [_name    |-> name,
     _context |-> context,
     enter    |-> IF context.defined /\ context.enter
                  THEN "_callContextEnterFunc" ELSE "_dummyFunc",
     exit     |-> IF context.defined /\ context.exit
                  THEN "_callContextExitFunc" ELSE "_dummyFunc"]

\* Property keys are strings: undefined is coerced to 'undefined'.
PropertyKey(name) == IF name = Undefined THEN "undefined" ELSE name

\* A value held in a variable of the walks: a State (by path) or the function
\* inherited from Object.prototype.
StateRef(p) == [isState |-> TRUE, path |-> p]
InheritedFunction == [isState |-> FALSE, path |-> << >>]

_worldState == StateRef(<< >>)

\* `name in this._substates`: own properties and inherited ones.
HasSubstateKey(t, p, name) ==
    \/ Append(p, PropertyKey(name)) \in DOMAIN t
    \/ PropertyKey(name) \in ObjectPrototypeProps

\* this._substates[name], given HasSubstateKey.
SubstateValue(t, p, name) ==
    IF Append(p, PropertyKey(name)) \in DOMAIN t
    THEN StateRef(Append(p, PropertyKey(name)))
    ELSE InheritedFunction

\* state.getSubstate(name): a method call on a value that is no State is a
\* TypeError; an unknown name throws 'UnknownSubstate'.
getSubstate(t, state, name) ==
    IF ~state.isState THEN [thrown |-> "TypeError", value |-> state]
    ELSE IF HasSubstateKey(t, state.path, name)
    THEN [thrown |-> "none", value |-> SubstateValue(t, state.path, name)]
    ELSE [thrown |-> "UnknownSubstate", value |-> state]

\* state.getDefaultSubstate() of a State: the substate or null.
getDefaultSubstate(t, p) ==
    LET name == IF t[p]._context.defined
                THEN t[p]._context.defaultSubstate ELSE Undefined
    IN  IF name # Undefined /\ HasSubstateKey(t, p, name)
        THEN [null |-> FALSE, value |-> SubstateValue(t, p, name)]
        ELSE [null |-> TRUE, value |-> StateRef(p)]

\* parent.addSubstate(substate) on the tree.
addSubstate(t, p, substate) ==
    IF HasSubstateKey(t, p, substate._name)
    THEN [thrown |-> "SubstateAlreadyExists", tree |-> t]
    ELSE [thrown |-> "none",
          tree |-> [q \in DOMAIN t \cup {Append(p, PropertyKey(substate._name))} |->
                      IF q \in DOMAIN t THEN t[q] ELSE substate]]

\* ------------------------------------------------------------------ StateManager
\* Faulty variant: split('.') without the special case of '' (which yields ['']).
stateDescrFromStateStr_NoEmptyCase(stateStr) == stateStr

stateDescrFromStateStr(stateStr) ==
    IF stateStr = EmptyStr THEN << >> ELSE stateStr

\* Array.prototype.join('.'): undefined elements become empty fields, and the
\* empty array becomes ''.
Join(descr) ==
    IF descr = << >> THEN EmptyStr
    ELSE [i \in 1..Len(descr) |-> IF descr[i] = Undefined THEN "" ELSE descr[i]]

currentState == Join(currentPath)

RECURSIVE ChangeLevelFrom(_, _, _)
ChangeLevelFrom(newStateDescr, cur, changeLevel) ==
    IF /\ changeLevel < Len(newStateDescr)
       /\ changeLevel < Len(cur)
       /\ newStateDescr[changeLevel + 1] = cur[changeLevel + 1]
    THEN ChangeLevelFrom(newStateDescr, cur, changeLevel + 1)
    ELSE changeLevel

\* Faulty variant: no common prefix is ever kept.
computeChangeLevel_Zero(newStateDescr, cur) == 0

\* Faulty variant: the last segment of the new path never counts as shared
\* (`changeLevel < newStateDescr.length - 1`), so the target is always re-entered.
computeChangeLevel_ReenterLeaf(newStateDescr, cur) ==
    LET k == ChangeLevelFrom(newStateDescr, cur, 0)
    IN  IF k = Len(newStateDescr) /\ k > 0 THEN k - 1 ELSE k

computeChangeLevel(newStateDescr, cur) == ChangeLevelFrom(newStateDescr, cur, 0)

\* registerState: the walk `parentState = parentState.getSubstate(stateDescr[i])`
\* for i from the given index up to stateDepth - 2 (0-based i).
RECURSIVE RegisterWalk(_, _, _, _)
RegisterWalk(t, stateDescr, i, parentState) ==
    IF i + 1 > Len(stateDescr) - 1
    THEN [thrown |-> "none", value |-> parentState]
    ELSE LET r == getSubstate(t, parentState, stateDescr[i + 1])
         IN  IF r.thrown # "none" THEN r
             ELSE RegisterWalk(t, stateDescr, i + 1, r.value)

\* registerState(stateStr, context) on the tree t: the exception thrown (or
\* "none") and the tree afterwards.
registerState(t, stateStr, context) ==
    LET stateDescr == stateDescrFromStateStr(stateStr)
        stateDepth == Len(stateDescr)
        walk       == RegisterWalk(t, stateDescr, 0, _worldState)
        \* stateDescr[stateDepth - 1] is undefined for the empty array
        name       == IF stateDepth = 0 THEN Undefined ELSE stateDescr[stateDepth]
    IN  IF walk.thrown # "none" THEN [thrown |-> walk.thrown, tree |-> t]
        ELSE IF ~walk.value.isState THEN [thrown |-> "TypeError", tree |-> t]
        ELSE addSubstate(t, walk.value.path, State(name, context))

\* One invocation of state.enter() or state.exit(), as logged.
Invocation(t, cb, p, phase) ==
    [cb |-> cb, node |-> p, phase |-> phase,
     fn |-> IF cb = "enter" THEN t[p].enter ELSE t[p].exit]

\* Faulty variant: the exit walk ignores forceAll.
RECURSIVE ExitWalk_IgnoreForceAll(_, _, _, _, _, _, _)
ExitWalk_IgnoreForceAll(t, cur, i, state, exitStates, changeLevel, forceAll) ==
    IF i >= Len(cur) THEN [thrown |-> "none", exitStates |-> exitStates]
    ELSE LET r == getSubstate(t, state, cur[i + 1])
         IN  IF r.thrown # "none"
             THEN [thrown |-> r.thrown, exitStates |-> exitStates]
             ELSE ExitWalk_IgnoreForceAll(t, cur, i + 1, r.value,
                           IF i >= changeLevel
                           THEN Append(exitStates, r.value) ELSE exitStates,
                           changeLevel, forceAll)

\* changeState, lines 150-155: resolve _currentStateDescr[i..] from `state`
\* and collect the states to exit.
RECURSIVE ExitWalk(_, _, _, _, _, _, _)
ExitWalk(t, cur, i, state, exitStates, changeLevel, forceAll) ==
    IF i >= Len(cur) THEN [thrown |-> "none", exitStates |-> exitStates]
    ELSE LET r == getSubstate(t, state, cur[i + 1])
         IN  IF r.thrown # "none"
             THEN [thrown |-> r.thrown, exitStates |-> exitStates]
             ELSE ExitWalk(t, cur, i + 1, r.value,
                           IF i >= changeLevel \/ forceAll
                           THEN Append(exitStates, r.value) ELSE exitStates,
                           changeLevel, forceAll)

\* Faulty variant: shift() instead of pop(), so the exits run in walk order.
RECURSIVE ExitCalls_Shift(_, _, _)
ExitCalls_Shift(t, exitStates, lg) ==
    IF Len(exitStates) = 0 THEN [thrown |-> "none", log |-> lg]
    ELSE LET state == exitStates[1]
         IN  IF ~state.isState THEN [thrown |-> "TypeError", log |-> lg]
             ELSE ExitCalls_Shift(t, Tail(exitStates),
                                  Append(lg, Invocation(t, "exit", state.path, "exit")))

\* changeState, lines 156-158: pop and exit until the list is empty.
RECURSIVE ExitCalls(_, _, _)
ExitCalls(t, exitStates, lg) ==
    IF Len(exitStates) = 0 THEN [thrown |-> "none", log |-> lg]
    ELSE LET state == exitStates[Len(exitStates)]
         IN  IF ~state.isState THEN [thrown |-> "TypeError", log |-> lg]
             ELSE ExitCalls(t, SubSeq(exitStates, 1, Len(exitStates) - 1),
                            Append(lg, Invocation(t, "exit", state.path, "exit")))

\* Faulty variant: the whole target path is resolved before any enter() is
\* invoked, so an unknown segment throws before the first enter.
RECURSIVE EnterWalk_ResolveFirst(_, _, _, _, _, _, _)
EnterWalk_ResolveFirst(t, newStateDescr, i, state, lg, changeLevel, forceAll) ==
    LET pre == ExitWalk(t, newStateDescr, i, state, << >>, changeLevel, forceAll)
    IN  IF pre.thrown # "none" THEN [thrown |-> pre.thrown, state |-> state, log |-> lg]
        ELSE IF i >= Len(newStateDescr)
        THEN [thrown |-> "none", state |-> state, log |-> lg]
        ELSE LET r == getSubstate(t, state, newStateDescr[i + 1])
             IN  IF i >= changeLevel \/ forceAll
                 THEN IF ~r.value.isState
                      THEN [thrown |-> "TypeError", state |-> r.value, log |-> lg]
                      ELSE EnterWalk_ResolveFirst(t, newStateDescr, i + 1, r.value,
                               Append(lg, Invocation(t, "enter", r.value.path, "target")),
                               changeLevel, forceAll)
                 ELSE EnterWalk_ResolveFirst(t, newStateDescr, i + 1, r.value, lg,
                                             changeLevel, forceAll)

\* Faulty variant: a state entered on the way to the target also enters its
\* default substate.
RECURSIVE EnterWalk_EnterDefaults(_, _, _, _, _, _, _)
EnterWalk_EnterDefaults(t, newStateDescr, i, state, lg, changeLevel, forceAll) ==
    IF i >= Len(newStateDescr) THEN [thrown |-> "none", state |-> state, log |-> lg]
    ELSE LET r == getSubstate(t, state, newStateDescr[i + 1])
         IN  IF r.thrown # "none"
             THEN [thrown |-> r.thrown, state |-> state, log |-> lg]
             ELSE IF i >= changeLevel \/ forceAll
             THEN IF ~r.value.isState
                  THEN [thrown |-> "TypeError", state |-> r.value, log |-> lg]
                  ELSE LET d  == getDefaultSubstate(t, r.value.path)
                           l1 == Append(lg, Invocation(t, "enter", r.value.path, "target"))
                           l2 == IF i + 1 < Len(newStateDescr) /\ ~d.null /\ d.value.isState
                                 THEN Append(l1, Invocation(t, "enter", d.value.path, "default"))
                                 ELSE l1
                       IN  EnterWalk_EnterDefaults(t, newStateDescr, i + 1, r.value, l2,
                                                   changeLevel, forceAll)
             ELSE EnterWalk_EnterDefaults(t, newStateDescr, i + 1, r.value, lg,
                                          changeLevel, forceAll)

\* changeState, lines 161-167: resolve newStateDescr[i..] from `state` and enter.
RECURSIVE EnterWalk(_, _, _, _, _, _, _)
EnterWalk(t, newStateDescr, i, state, lg, changeLevel, forceAll) ==
    IF i >= Len(newStateDescr) THEN [thrown |-> "none", state |-> state, log |-> lg]
    ELSE LET r == getSubstate(t, state, newStateDescr[i + 1])
         IN  IF r.thrown # "none"
             THEN [thrown |-> r.thrown, state |-> state, log |-> lg]
             ELSE IF i >= changeLevel \/ forceAll
             THEN IF ~r.value.isState
                  THEN [thrown |-> "TypeError", state |-> r.value, log |-> lg]
                  ELSE EnterWalk(t, newStateDescr, i + 1, r.value,
                                 Append(lg, Invocation(t, "enter", r.value.path, "target")),
                                 changeLevel, forceAll)
             ELSE EnterWalk(t, newStateDescr, i + 1, r.value, lg, changeLevel, forceAll)

\* Faulty variant: the default substate is entered and pushed but `state` is not
\* advanced to it.
DefaultIteration_NoAdvance(t, st, descr, lg) ==
    IF ~st.isState
    THEN [break |-> TRUE, thrown |-> "TypeError", state |-> st, descr |-> descr, log |-> lg]
    ELSE LET d == getDefaultSubstate(t, st.path)
         IN  IF d.null
             THEN [break |-> TRUE, thrown |-> "none", state |-> st,
                   descr |-> descr, log |-> lg]
             ELSE IF ~d.value.isState
             THEN [break |-> TRUE, thrown |-> "TypeError", state |-> d.value,
                   descr |-> descr, log |-> lg]
             ELSE [break |-> FALSE, thrown |-> "none", state |-> st,
                   descr |-> Append(descr, t[d.value.path]._name),
                   log |-> Append(lg, Invocation(t, "enter", d.value.path, "default"))]

\* Faulty variant: the default substate is entered but its name is not pushed
\* onto _currentStateDescr.
DefaultIteration_NoPush(t, st, descr, lg) ==
    IF ~st.isState
    THEN [break |-> TRUE, thrown |-> "TypeError", state |-> st, descr |-> descr, log |-> lg]
    ELSE LET d == getDefaultSubstate(t, st.path)
         IN  IF d.null
             THEN [break |-> TRUE, thrown |-> "none", state |-> st,
                   descr |-> descr, log |-> lg]
             ELSE IF ~d.value.isState
             THEN [break |-> TRUE, thrown |-> "TypeError", state |-> d.value,
                   descr |-> descr, log |-> lg]
             ELSE [break |-> FALSE, thrown |-> "none", state |-> d.value,
                   descr |-> descr,
                   log |-> Append(lg, Invocation(t, "enter", d.value.path, "default"))]

\* changeState, lines 174-179: one iteration of the while (true) loop.
DefaultIteration(t, st, descr, lg) ==
    IF ~st.isState
    THEN [break |-> TRUE, thrown |-> "TypeError", state |-> st, descr |-> descr, log |-> lg]
    ELSE LET d == getDefaultSubstate(t, st.path)
         IN  IF d.null
             THEN [break |-> TRUE, thrown |-> "none", state |-> st,
                   descr |-> descr, log |-> lg]
             ELSE IF ~d.value.isState
             THEN [break |-> TRUE, thrown |-> "TypeError", state |-> d.value,
                   descr |-> descr, log |-> lg]
             ELSE [break |-> FALSE, thrown |-> "none", state |-> d.value,
                   descr |-> Append(descr, t[d.value.path]._name),
                   log |-> Append(lg, Invocation(t, "enter", d.value.path, "default"))]

\* Faulty variant: `if` instead of `while`, so only one default substate is entered.
DefaultWalk_OneLevel(t, st, descr, lg) ==
    LET it == DefaultIteration(t, st, descr, lg)
    IN  [thrown |-> it.thrown, descr |-> it.descr, log |-> it.log]

\* changeState, lines 173-180: enter the default substates, pushing their names.
RECURSIVE DefaultWalk(_, _, _, _)
DefaultWalk(t, st, descr, lg) ==
    LET it == DefaultIteration(t, st, descr, lg)
    IN  IF it.break THEN [thrown |-> it.thrown, descr |-> it.descr, log |-> it.log]
        ELSE DefaultWalk(t, it.state, it.descr, it.log)

\* Faulty variant: _currentStateDescr is assigned before the enter walk instead of
\* after it, so a throwing walk leaves the new path behind.
changeStateEnter_AssignFirst(t, cur, newStateStr, forceAll) ==
    LET newStateDescr == stateDescrFromStateStr(newStateStr)
        changeLevel   == computeChangeLevel(newStateDescr, cur)
        walk          == ExitWalk(t, cur, 0, _worldState, << >>, changeLevel, forceAll)
        exits         == ExitCalls(t, walk.exitStates, << >>)
        enters        == EnterWalk(t, newStateDescr, 0, _worldState, exits.log,
                                   changeLevel, forceAll)
    IN  IF walk.thrown # "none"
        THEN [thrown |-> walk.thrown, currentPath |-> cur, log |-> << >>,
              state |-> _worldState]
        ELSE IF exits.thrown # "none"
        THEN [thrown |-> exits.thrown, currentPath |-> cur, log |-> exits.log,
              state |-> _worldState]
        ELSE [thrown |-> enters.thrown, currentPath |-> newStateDescr,
              log |-> enters.log, state |-> enters.state]

\* changeState, lines 142-170: everything before the loop of the defaults.
changeStateEnter(t, cur, newStateStr, forceAll) ==
    LET newStateDescr == stateDescrFromStateStr(newStateStr)
        changeLevel   == computeChangeLevel(newStateDescr, cur)
        walk          == ExitWalk(t, cur, 0, _worldState, << >>, changeLevel, forceAll)
        exits         == ExitCalls(t, walk.exitStates, << >>)
        enters        == EnterWalk(t, newStateDescr, 0, _worldState, exits.log,
                                   changeLevel, forceAll)
    IN  IF walk.thrown # "none"
        THEN [thrown |-> walk.thrown, currentPath |-> cur, log |-> << >>,
              state |-> _worldState]
        ELSE IF exits.thrown # "none"
        THEN [thrown |-> exits.thrown, currentPath |-> cur, log |-> exits.log,
              state |-> _worldState]
        ELSE IF enters.thrown # "none"
        THEN [thrown |-> enters.thrown, currentPath |-> cur, log |-> enters.log,
              state |-> enters.state]
        ELSE [thrown |-> "none", currentPath |-> newStateDescr, log |-> enters.log,
              state |-> enters.state]

\* changeState(newStateStr, forceAll) on tree t with _currentStateDescr = cur:
\* the exception thrown (or "none"), _currentStateDescr afterwards and the
\* invocations made.
changeState(t, cur, newStateStr, forceAll) ==
    LET enters   == changeStateEnter(t, cur, newStateStr, forceAll)
        defaults == DefaultWalk(t, enters.state, enters.currentPath, enters.log)
    IN  IF enters.thrown # "none"
        THEN [thrown |-> enters.thrown, currentPath |-> enters.currentPath,
              log |-> enters.log]
        ELSE [thrown |-> defaults.thrown, currentPath |-> defaults.descr,
              log |-> defaults.log]

Outcome(thrown) == IF thrown = "none" THEN "ok" ELSE thrown

\* ------------------------------------------------------------------ callbacks that call changeState
\* The same methods with the callbacks run as part of enter() and exit():
\* _currentStateDescr (cur) and the log are passed through every invocation,
\* since a callback that calls changeState changes both.  depth is the number
\* of changeState calls in progress around the one at hand.
RECURSIVE changeStateR(_, _, _, _, _, _)
RECURSIVE Invoke(_, _, _, _, _, _, _)
RECURSIVE ExitCallsR(_, _, _, _, _)
RECURSIVE EnterWalkR(_, _, _, _, _, _, _, _, _)
RECURSIVE DefaultIterationR(_, _, _, _, _)
RECURSIVE DefaultWalkR(_, _, _, _, _)

\* One invocation of state.enter() or state.exit() at the given depth, as logged.
InvocationAt(t, cb, p, phase, depth) ==
    [cb |-> cb, node |-> p, phase |-> phase,
     fn |-> IF cb = "enter" THEN t[p].enter ELSE t[p].exit, depth |-> depth]

\* A changeState call made by a callback, as logged when it ends: its
\* argument, the index of the log from which its own invocations are logged,
\* _currentStateDescr when it began and when it ended, and what it threw.
NestedCall(stateStr, depth, from, pathBefore, pathAfter, thrown) ==
    [cb |-> "changeState", node |-> stateDescrFromStateStr(stateStr), phase |-> "nested",
     fn |-> "changeState", depth |-> depth, stateStr |-> stateStr, from |-> from,
     pathBefore |-> pathBefore, pathAfter |-> pathAfter, thrown |-> thrown]

\* The string the cb callback of State p passes to changeState, or NoStr.
CallbackCall(t, p, cb) ==
    LET c == t[p]._context
    IN  IF c.defined /\ "calls" \in DOMAIN c /\ c.calls.cb = cb
        THEN c.calls.stateStr ELSE NoStr

\* state.enter() / state.exit(): _callContextEnterFunc / _callContextExitFunc
\* run the context's callback, which may call changeState; what the inner
\* call throws is thrown by the callback.
Invoke(t, cur, lg, cb, p, phase, depth) ==
    LET lg1 == Append(lg, InvocationAt(t, cb, p, phase, depth))
        str == CallbackCall(t, p, cb)
    IN  IF str = NoStr \/ depth >= MaxDepth
        THEN [thrown |-> "none", cur |-> cur, log |-> lg1]
        ELSE LET r == changeStateR(t, cur, lg1, str, FALSE, depth + 1)
             IN  [thrown |-> r.thrown, cur |-> r.cur,
                  log |-> Append(r.log, NestedCall(str, depth + 1, Len(lg1) + 1,
                                                   cur, r.cur, r.thrown))]

\* changeState, lines 156-158, with the callbacks.
ExitCallsR(t, exitStates, cur, lg, depth) ==
    IF Len(exitStates) = 0 THEN [thrown |-> "none", cur |-> cur, log |-> lg]
    ELSE LET state == exitStates[Len(exitStates)]
         IN  IF ~state.isState THEN [thrown |-> "TypeError", cur |-> cur, log |-> lg]
             ELSE LET inv == Invoke(t, cur, lg, "exit", state.path, "exit", depth)
                  IN  IF inv.thrown # "none" THEN inv
                      ELSE ExitCallsR(t, SubSeq(exitStates, 1, Len(exitStates) - 1),
                                      inv.cur, inv.log, depth)

\* changeState, lines 161-167, with the callbacks.
EnterWalkR(t, newStateDescr, i, state, cur, lg, changeLevel, forceAll, depth) ==
    IF i >= Len(newStateDescr)
    THEN [thrown |-> "none", state |-> state, cur |-> cur, log |-> lg]
    ELSE LET r == getSubstate(t, state, newStateDescr[i + 1])
         IN  IF r.thrown # "none"
             THEN [thrown |-> r.thrown, state |-> state, cur |-> cur, log |-> lg]
             ELSE IF i >= changeLevel \/ forceAll
             THEN IF ~r.value.isState
                  THEN [thrown |-> "TypeError", state |-> r.value, cur |-> cur, log |-> lg]
                  ELSE LET inv == Invoke(t, cur, lg, "enter", r.value.path, "target", depth)
                       IN  IF inv.thrown # "none"
                           THEN [thrown |-> inv.thrown, state |-> r.value,
                                 cur |-> inv.cur, log |-> inv.log]
                           ELSE EnterWalkR(t, newStateDescr, i + 1, r.value,
                                           inv.cur, inv.log, changeLevel, forceAll, depth)
             ELSE EnterWalkR(t, newStateDescr, i + 1, r.value, cur, lg,
                             changeLevel, forceAll, depth)

\* Faulty variant: the name of the default substate is pushed onto the array
\* this call assigned, not onto the one _currentStateDescr refers to by then.
DefaultIterationR_PushOwn(t, st, cur, lg, depth) ==
    IF ~st.isState
    THEN [break |-> TRUE, thrown |-> "TypeError", state |-> st, cur |-> cur, log |-> lg]
    ELSE LET d == getDefaultSubstate(t, st.path)
         IN  IF d.null
             THEN [break |-> TRUE, thrown |-> "none", state |-> st, cur |-> cur, log |-> lg]
             ELSE IF ~d.value.isState
             THEN [break |-> TRUE, thrown |-> "TypeError", state |-> d.value,
                   cur |-> cur, log |-> lg]
             ELSE LET inv == Invoke(t, cur, lg, "enter", d.value.path, "default", depth)
                  IN  IF inv.thrown # "none"
                      THEN [break |-> TRUE, thrown |-> inv.thrown, state |-> d.value,
                            cur |-> inv.cur, log |-> inv.log]
                      ELSE [break |-> FALSE, thrown |-> "none", state |-> d.value,
                            cur |-> Append(cur, t[d.value.path]._name),
                            log |-> inv.log]

\* changeState, lines 174-179, with the callbacks: the push of line 177 goes
\* to the array _currentStateDescr refers to after state.enter() has returned.
DefaultIterationR(t, st, cur, lg, depth) ==
    IF ~st.isState
    THEN [break |-> TRUE, thrown |-> "TypeError", state |-> st, cur |-> cur, log |-> lg]
    ELSE LET d == getDefaultSubstate(t, st.path)
         IN  IF d.null
             THEN [break |-> TRUE, thrown |-> "none", state |-> st, cur |-> cur, log |-> lg]
             ELSE IF ~d.value.isState
             THEN [break |-> TRUE, thrown |-> "TypeError", state |-> d.value,
                   cur |-> cur, log |-> lg]
             ELSE LET inv == Invoke(t, cur, lg, "enter", d.value.path, "default", depth)
                  IN  IF inv.thrown # "none"
                      THEN [break |-> TRUE, thrown |-> inv.thrown, state |-> d.value,
                            cur |-> inv.cur, log |-> inv.log]
                      ELSE [break |-> FALSE, thrown |-> "none", state |-> d.value,
                            cur |-> Append(inv.cur, t[d.value.path]._name),
                            log |-> inv.log]

\* changeState, lines 173-180, with the callbacks.
DefaultWalkR(t, st, cur, lg, depth) ==
    LET it == DefaultIterationR(t, st, cur, lg, depth)
    IN  IF it.break THEN [thrown |-> it.thrown, cur |-> it.cur, log |-> it.log]
        ELSE DefaultWalkR(t, it.state, it.cur, it.log, depth)

\* changeState(newStateStr, forceAll) with the callbacks, called at the given
\* depth with _currentStateDescr = cur: changeLevel and exitStates are computed
\* once, from cur as it is at the call; line 170 assigns newStateDescr whatever
\* _currentStateDescr has become.
changeStateR(t, cur, lg, newStateStr, forceAll, depth) ==
    LET newStateDescr == stateDescrFromStateStr(newStateStr)
        changeLevel   == computeChangeLevel(newStateDescr, cur)
        walk          == ExitWalk(t, cur, 0, _worldState, << >>, changeLevel, forceAll)
        exits         == ExitCallsR(t, walk.exitStates, cur, lg, depth)
        enters        == EnterWalkR(t, newStateDescr, 0, _worldState, exits.cur, exits.log,
                                    changeLevel, forceAll, depth)
        defaults      == DefaultWalkR(t, enters.state, newStateDescr, enters.log, depth)
    IN  IF walk.thrown # "none"
        THEN [thrown |-> walk.thrown, cur |-> cur, log |-> lg]
        ELSE IF exits.thrown # "none"
        THEN [thrown |-> exits.thrown, cur |-> exits.cur, log |-> exits.log]
        ELSE IF enters.thrown # "none"
        THEN [thrown |-> enters.thrown, cur |-> enters.cur, log |-> enters.log]
        ELSE [thrown |-> defaults.thrown, cur |-> defaults.cur, log |-> defaults.log]

\* ------------------------------------------------------------------ behaviour
NoCall == [method |-> "new", stateStr |-> EmptyStr, forceAll |-> FALSE]

\* var m = new StateManager()
Init ==
    /\ tree = [p \in {<< >>} |-> State("__WORLD__", NoContext)]
    /\ currentPath = << >>
    /\ lastCall = NoCall
    /\ outcome = "ok"
    /\ log = << >>
    /\ prevTree = tree
    /\ prevPath = << >>
    /\ pc = "idle"
    /\ cursor = _worldState
    /\ active = {}
    /\ alternates = TRUE
    /\ failed = FALSE

\* Faulty variant: registerState re-runs the cascade of defaults from the
\* active leaf, so a default substate registered under it is entered at once.
RegisterState_Cascades(stateStr, context) ==
    LET r == registerState(tree, stateStr, context)
        d == DefaultWalk(r.tree, StateRef(currentPath), currentPath, << >>)
    IN  /\ pc = "idle"
        /\ Cardinality(DOMAIN r.tree) <= MaxNodes + 1
        /\ tree' = r.tree
        /\ outcome' = Outcome(r.thrown)
        /\ lastCall' = [method |-> "registerState", stateStr |-> stateStr,
                        forceAll |-> FALSE]
        /\ currentPath' = d.descr
        /\ log' = d.log
        /\ prevTree' = tree
        /\ prevPath' = currentPath
        /\ UNCHANGED <<pc, cursor>>

\* m.registerState(stateStr, context)
RegisterState(stateStr, context) ==
    LET r == registerState(tree, stateStr, context)
    IN  /\ pc = "idle"
        /\ Cardinality(DOMAIN r.tree) <= MaxNodes + 1
        /\ tree' = r.tree
        /\ outcome' = Outcome(r.thrown)
        /\ lastCall' = [method |-> "registerState", stateStr |-> stateStr,
                        forceAll |-> FALSE]
        /\ log' = << >>
        /\ prevTree' = tree
        /\ prevPath' = currentPath
        /\ UNCHANGED <<currentPath, pc, cursor>>

\* m.changeState(newStateStr, forceAll), from the call to its return or throw
ChangeState(newStateStr, forceAll) ==
    LET r == changeState(tree, currentPath, newStateStr, forceAll)
    IN  /\ pc = "idle"
        /\ currentPath' = r.currentPath
        /\ outcome' = Outcome(r.thrown)
        /\ lastCall' = [method |-> "changeState", stateStr |-> newStateStr,
                        forceAll |-> forceAll]
        /\ log' = r.log
        /\ prevTree' = tree
        /\ prevPath' = currentPath
        /\ UNCHANGED <<tree, pc, cursor>>

Next ==
    \/ \E stateStr \in RegisterStrs, context \in Contexts :
           RegisterState(stateStr, context) /\ UNCHANGED hist
    \/ \E newStateStr \in ChangeStrs, forceAll \in BOOLEAN :
           ChangeState(newStateStr, forceAll) /\ UNCHANGED hist

Spec == Init /\ [][Next]_vars

\* The invocations of one call applied, in order, to the record of the States
\* whose last invocation was enter().
RECURSIVE Tally(_, _, _, _)
Tally(lg, i, act, alt) ==
    IF i > Len(lg) THEN [active |-> act, alternates |-> alt]
    ELSE IF lg[i].cb = "enter"
    THEN Tally(lg, i + 1, act \cup {lg[i].node}, alt /\ lg[i].node \notin act)
    ELSE IF lg[i].cb = "exit"
    THEN Tally(lg, i + 1, act \ {lg[i].node}, alt /\ lg[i].node \in act)
    ELSE Tally(lg, i + 1, act, alt)

\* The record after the call that has just been made.  It is kept for the
\* sequences of calls in which no changeState throws, and closed by the first
\* one that does.
Record ==
    /\ failed' = (failed \/ (lastCall'.method = "changeState" /\ outcome' # "ok"))
    /\ IF failed'
       THEN active' = {} /\ alternates' = TRUE
       ELSE /\ active' = Tally(log', 1, active, alternates).active
            /\ alternates' = Tally(log', 1, active, alternates).alternates

\* The same program as Spec, with the record kept across the calls.
NextHistory ==
    \/ \E stateStr \in RegisterStrs, context \in Contexts :
           RegisterState(stateStr, context) /\ Record
    \/ \E newStateStr \in ChangeStrs, forceAll \in BOOLEAN :
           ChangeState(newStateStr, forceAll) /\ Record

SpecHistory == Init /\ [][NextHistory]_vars

\* m.changeState(newStateStr, forceAll) with callbacks that may call
\* changeState, from the call to its return or throw.
ChangeStateReentrant(newStateStr, forceAll) ==
    LET r == changeStateR(tree, currentPath, << >>, newStateStr, forceAll, 0)
    IN  /\ pc = "idle"
        /\ currentPath' = r.cur
        /\ outcome' = Outcome(r.thrown)
        /\ lastCall' = [method |-> "changeState", stateStr |-> newStateStr,
                        forceAll |-> forceAll]
        /\ log' = r.log
        /\ prevTree' = tree
        /\ prevPath' = currentPath
        /\ UNCHANGED <<tree, pc, cursor>>

\* The program with contexts whose callbacks call changeState.
NextReentrant ==
    \/ \E stateStr \in ReentrantStrs, context \in ReentrantContexts :
           RegisterState(stateStr, context) /\ Record
    \/ \E newStateStr \in {EmptyStr} \cup ReentrantStrs, forceAll \in BOOLEAN :
           ChangeStateReentrant(newStateStr, forceAll) /\ Record

SpecReentrant == Init /\ [][NextReentrant]_vars

\* The same program with the loop of lines 173-180 taken one iteration at a
\* time: changeState up to the assignment of line 170 ...
ChangeStateBegin(newStateStr, forceAll) ==
    LET r == changeStateEnter(tree, currentPath, newStateStr, forceAll)
    IN  /\ pc = "idle"
        /\ currentPath' = r.currentPath
        /\ lastCall' = [method |-> "changeState", stateStr |-> newStateStr,
                        forceAll |-> forceAll]
        /\ log' = r.log
        /\ prevTree' = tree
        /\ prevPath' = currentPath
        /\ IF r.thrown # "none"
           THEN outcome' = Outcome(r.thrown) /\ pc' = "idle" /\ cursor' = _worldState
           ELSE outcome' = "running" /\ pc' = "defaults" /\ cursor' = r.state
        /\ UNCHANGED tree

\* ... and one iteration of while (true), until the break or a throw.  A
\* path is never longer than the number of States, which caps the pushes.
DefaultStep ==
    LET it == DefaultIteration(tree, cursor, currentPath, log)
    IN  /\ pc = "defaults"
        /\ Len(it.descr) <= MaxNodes
        /\ currentPath' = it.descr
        /\ log' = it.log
        /\ IF it.break
           THEN outcome' = Outcome(it.thrown) /\ pc' = "idle" /\ cursor' = _worldState
           ELSE cursor' = it.state /\ UNCHANGED <<outcome, pc>>
        /\ UNCHANGED <<tree, lastCall, prevTree, prevPath>>
        /\ UNCHANGED hist

NextSteps ==
    \/ \E stateStr \in RegisterStrs, context \in Contexts :
           RegisterState(stateStr, context) /\ UNCHANGED hist
    \/ \E newStateStr \in ChangeStrs, forceAll \in BOOLEAN :
           ChangeStateBegin(newStateStr, forceAll) /\ UNCHANGED hist
    \/ DefaultStep

\* The loop is synchronous: once begun it keeps running.
SpecSteps == Init /\ [][NextSteps]_vars /\ WF_vars(DefaultStep)

\* ------------------------------------------------------------------ claims
\* The descr of the last call's string argument.
TargetDescr == stateDescrFromStateStr(lastCall.stateStr)

ChangeCalled == lastCall.method = "changeState"
RegisterCalled == lastCall.method = "registerState"

\* The prefixes of a path are the nodes on it: Node(path, i) is its i-th node.
Node(path, i) == SubSeq(path, 1, i)

\* p is the path of a registered State (an own property at every step).
Registered(t, p) == p \in DOMAIN t

\* The names of the chain of default substates below node p: each link is the
\* registered child named by the previous node's defaultSubstate.
RECURSIVE DefaultChain(_, _)
DefaultChain(t, p) ==
    LET c == t[p]._context
    IN  IF c.defined /\ c.defaultSubstate # Undefined
           /\ Registered(t, Append(p, c.defaultSubstate))
        THEN <<c.defaultSubstate>> \o DefaultChain(t, Append(p, c.defaultSubstate))
        ELSE << >>

\* C1: a successful changeState(p) leaves currentState() equal to p followed by
\* the names of the chain of default substates below p's last node, and equal
\* to exactly p when that node has no resolvable default.
C1_Theorem ==
    (ChangeCalled /\ outcome = "ok") =>
        /\ Registered(tree, TargetDescr)
        /\ currentState = Join(TargetDescr \o DefaultChain(tree, TargetDescr))

\* C1 witness: changeState('a') with a -> default b -> default b has ended in 'a.b.b'.
C1_Witness ==
    /\ ChangeCalled /\ outcome = "ok"
    /\ lastCall.stateStr = <<"a">>
    /\ currentState = <<"a", "b", "b">>

\* The invocations of the last call, by kind, as sequences of nodes.
NodesOf(entries) == [i \in 1..Len(entries) |-> entries[i].node]
IsExit(e) == e.cb = "exit"
IsTargetEnter(e) == e.cb = "enter" /\ e.phase = "target"
IsDefaultEnter(e) == e.cb = "enter" /\ e.phase = "default"
ExitNodes == NodesOf(SelectSeq(log, IsExit))
TargetEnterNodes == NodesOf(SelectSeq(log, IsTargetEnter))
DefaultEnterNodes == NodesOf(SelectSeq(log, IsDefaultEnter))

\* How often node n occurs in a sequence of nodes.
Count(nodes, n) == Cardinality({i \in 1..Len(nodes) : nodes[i] = n})

Min(x, y) == IF x <= y THEN x ELSE y

\* The length of the longest common prefix of two paths.
CommonPrefixLen(p, q) ==
    CHOOSE k \in 0..Min(Len(p), Len(q)) :
        /\ \A i \in 1..k : p[i] = q[i]
        /\ k = Min(Len(p), Len(q)) \/ p[k + 1] # q[k + 1]

\* The nodes of a path from index `from` (1-based) on, shallowest first, and
\* deepest first.
NodesFrom(path, from) ==
    [i \in 1..(Len(path) - (from - 1)) |-> Node(path, from - 1 + i)]
Reverse(sq) == [i \in 1..Len(sq) |-> sq[Len(sq) + 1 - i]]

\* C2: in a successful changeState(target) with forceAll false, with k the
\* length of the longest common prefix of the current path and the target,
\* exit is invoked exactly once on each node of the current path at index >= k
\* and on no other node, the enter of the enter phase exactly once on each node
\* of the target path at index >= k and on no other node, and the nodes at
\* index < k receive neither callback.
C2_Theorem ==
    (ChangeCalled /\ outcome = "ok" /\ ~lastCall.forceAll) =>
        LET k == CommonPrefixLen(prevPath, TargetDescr)
        IN  /\ \A i \in 1..Len(prevPath) :
                   Count(ExitNodes, Node(prevPath, i)) = IF i > k THEN 1 ELSE 0
            /\ \A j \in 1..Len(ExitNodes) :
                   \E i \in 1..Len(prevPath) : ExitNodes[j] = Node(prevPath, i)
            /\ \A i \in 1..Len(TargetDescr) :
                   Count(TargetEnterNodes, Node(TargetDescr, i)) = IF i > k THEN 1 ELSE 0
            /\ \A j \in 1..Len(TargetEnterNodes) :
                   \E i \in 1..Len(TargetDescr) : TargetEnterNodes[j] = Node(TargetDescr, i)
            /\ \A i \in 1..k : \A j \in 1..Len(log) : log[j].node # Node(prevPath, i)

\* C2 witness: from a.a to a.b only a.a was exited and only a.b entered.
C2_Witness ==
    /\ ChangeCalled /\ outcome = "ok" /\ ~lastCall.forceAll
    /\ prevPath = <<"a", "a">>
    /\ lastCall.stateStr = <<"a", "b">>
    /\ ExitNodes = << <<"a", "a">> >>
    /\ TargetEnterNodes = << <<"a", "b">> >>

\* p is a proper ancestor of q.
Ancestor(p, q) == Len(p) < Len(q) /\ SubSeq(q, 1, Len(p)) = p

\* C3: within one changeState call every exit is invoked before any enter,
\* exits run deepest-first (a substate before its ancestor), the enters of the
\* target path run shallowest-first (an ancestor before its substate), and the
\* enters of the default cascade run after all enters of the target path, each
\* default child after its parent.
C3_Theorem ==
    ChangeCalled =>
        \A i, j \in 1..Len(log) :
            i < j =>
                /\ IsExit(log[j]) => IsExit(log[i])
                /\ IsExit(log[j]) => Ancestor(log[j].node, log[i].node)
                /\ (IsTargetEnter(log[i]) /\ IsTargetEnter(log[j]))
                       => Ancestor(log[i].node, log[j].node)
                /\ IsTargetEnter(log[j]) => ~IsDefaultEnter(log[i])
                /\ (IsDefaultEnter(log[i]) /\ IsDefaultEnter(log[j]))
                       => Ancestor(log[i].node, log[j].node)

\* C3 witness: one call that exited two nodes, entered two nodes of the target
\* path and entered a default substate.
C3_Witness ==
    /\ ChangeCalled
    /\ Len(ExitNodes) >= 2
    /\ Len(TargetEnterNodes) >= 2
    /\ Len(DefaultEnterNodes) >= 1

\* C4: a successful changeState(target, forceAll = true) exits every node of
\* the current path deepest-first and then enters every node of the target
\* path shallowest-first, whatever prefix the two paths share.
C4_Theorem ==
    (ChangeCalled /\ outcome = "ok" /\ lastCall.forceAll) =>
        /\ ExitNodes = Reverse(NodesFrom(prevPath, 1))
        /\ TargetEnterNodes = NodesFrom(TargetDescr, 1)
        /\ \A i \in 1..Len(log) : IsExit(log[i]) <=> i <= Len(prevPath)

\* C4 witness: forceAll from a.b to a.b exited b then a and entered a then b.
C4_Witness ==
    /\ ChangeCalled /\ outcome = "ok" /\ lastCall.forceAll
    /\ prevPath = <<"a", "b">>
    /\ lastCall.stateStr = <<"a", "b">>
    /\ NodesOf(log) = << <<"a", "b">>, <<"a">>, <<"a">>, <<"a", "b">> >>

\* C5: changeState('') exits every node of the current path deepest-first,
\* invokes no enter and leaves currentState() equal to ''.
C5_Theorem ==
    (ChangeCalled /\ lastCall.stateStr = EmptyStr) =>
        /\ outcome = "ok"
        /\ NodesOf(log) = Reverse(NodesFrom(prevPath, 1))
        /\ \A i \in 1..Len(log) : IsExit(log[i])
        /\ currentState = EmptyStr

\* C5 witness: changeState('') from a.b.b, whose last two names a default
\* cascade appended, has exited a.b.b, a.b and a.
C5_Witness ==
    /\ ChangeCalled /\ lastCall.stateStr = EmptyStr
    /\ prevPath = <<"a", "b", "b">>
    /\ Len(log) = 3
    /\ currentState = EmptyStr

\* Every segment of descr names a registered child of the node reached by the
\* preceding segments.
Resolves(t, descr) == \A i \in 1..Len(descr) : Registered(t, Node(descr, i))

\* C6: changeState(target) fails with the unknown-child error whenever some
\* segment of the target does not resolve to a registered child, never
\* completing normally, and currentState() is afterwards what it was before.
C6_Claim ==
    (ChangeCalled /\ ~Resolves(tree, TargetDescr)) =>
        /\ outcome = "UnknownSubstate"
        /\ currentState = Join(prevPath)

\* C6, as far as the code goes: such a call never completes normally and
\* leaves currentState() as it was; it throws 'UnknownSubstate' unless the
\* first unresolved segment is a property inherited from Object.prototype.
C6_NeverCompletes ==
    (ChangeCalled /\ ~Resolves(tree, TargetDescr)) =>
        /\ outcome # "ok"
        /\ currentState = Join(prevPath)
        /\ LET i == CHOOSE j \in 1..Len(TargetDescr) :
                        /\ ~Registered(tree, Node(TargetDescr, j))
                        /\ \A h \in 1..(j - 1) : Registered(tree, Node(TargetDescr, h))
           IN  outcome = IF TargetDescr[i] \in ObjectPrototypeProps
                         THEN "TypeError" ELSE "UnknownSubstate"

\* C7: _currentStateDescr is a valid walk from the root after every call,
\* failed ones included: every segment names a registered child of the node
\* reached by the preceding segments, so the exit walk of a later changeState
\* throws nothing.
C7_Theorem ==
    /\ Resolves(tree, currentPath)
    /\ ExitWalk(tree, currentPath, 0, _worldState, << >>, 0, FALSE).thrown = "none"

\* C7 witness: a changeState that failed from a non-empty current path.
C7_Witness ==
    /\ ChangeCalled /\ outcome = "UnknownSubstate"
    /\ Len(TargetDescr) = 2
    /\ Registered(tree, Node(TargetDescr, 1))
    /\ Len(currentPath) = 2
    /\ Len(log) > 0

\* C8: registerState of a multi-segment path fails with the unknown-child
\* error when a segment before the last is not a registered child of the node
\* reached so far, and leaves the tree unchanged.
C8_Claim ==
    (/\ RegisterCalled
     /\ \E i \in 1..(Len(TargetDescr) - 1) : ~Registered(prevTree, Node(TargetDescr, i)))
        => (outcome = "UnknownSubstate" /\ tree = prevTree)

\* C8, as far as the code goes: the call fails and leaves the tree unchanged.
C8_NoImplicitAncestor ==
    (/\ RegisterCalled
     /\ \E i \in 1..(Len(TargetDescr) - 1) : ~Registered(prevTree, Node(TargetDescr, i)))
        => (outcome \in {"UnknownSubstate", "TypeError"} /\ tree = prevTree)

\* The tree t with a new State named by the last segment of descr added.
WithChild(t, descr) ==
    [q \in DOMAIN t \cup {descr} |-> IF q \in DOMAIN t THEN t[q] ELSE tree[descr]]

\* C9: registerState under a resolved parent fails with the duplicate-name
\* error if a child of that name is registered there, leaving the tree as it
\* was; otherwise it stores the new node, and a lookup of the name returns it.
C9_Claim ==
    (/\ RegisterCalled
     /\ Len(TargetDescr) >= 1
     /\ Resolves(prevTree, Node(TargetDescr, Len(TargetDescr) - 1)))
        => IF Registered(prevTree, TargetDescr)
           THEN outcome = "SubstateAlreadyExists" /\ tree = prevTree
           ELSE /\ outcome = "ok"
                /\ Registered(tree, TargetDescr)
                /\ tree = WithChild(prevTree, TargetDescr)
                /\ tree[TargetDescr]._name = TargetDescr[Len(TargetDescr)]
                /\ getSubstate(tree, StateRef(Node(TargetDescr, Len(TargetDescr) - 1)),
                               TargetDescr[Len(TargetDescr)])
                       = [thrown |-> "none", value |-> StateRef(TargetDescr)]

\* C9, as far as the code goes: the same, for names that no plain object
\* inherits from Object.prototype.
C9_OwnNames ==
    (/\ RegisterCalled
     /\ Len(TargetDescr) >= 1
     /\ Resolves(prevTree, Node(TargetDescr, Len(TargetDescr) - 1))
     /\ TargetDescr[Len(TargetDescr)] \notin ObjectPrototypeProps)
        => IF Registered(prevTree, TargetDescr)
           THEN outcome = "SubstateAlreadyExists" /\ tree = prevTree
           ELSE /\ outcome = "ok"
                /\ tree = WithChild(prevTree, TargetDescr)
                /\ tree[TargetDescr]._name = TargetDescr[Len(TargetDescr)]

\* The height of the tree below node p.
Height(t, p) ==
    LET below == {Len(q) - Len(p) : q \in {r \in DOMAIN t : Len(r) >= Len(p) /\ Node(r, Len(p)) = p}}
    IN  CHOOSE h \in below : \A g \in below : g <= h

\* While the loop of the defaults runs, `state` is the registered node the
\* current path leads to and no more defaults were entered than the tree is
\* high below the target.
CascadeDescends ==
    (ChangeCalled /\ outcome \in {"running", "ok"}) =>
        /\ Registered(tree, TargetDescr)
        /\ Registered(tree, currentPath)
        /\ pc = "defaults" => cursor = StateRef(currentPath)
        /\ Len(currentPath) = Len(TargetDescr) + Len(DefaultEnterNodes)
        /\ Len(DefaultEnterNodes) <= Height(tree, TargetDescr)

\* C10: every changeState call terminates: the default-substate cascade stops
\* after at most as many steps as the tree is high below the target node,
\* each step moving to a registered child of the current node.
C10_Theorem ==
    /\ []CascadeDescends
    /\ (pc = "defaults") ~> (pc = "idle")

\* C10 witness: a cascade of two steps (a -> b -> b) has run to its end.
C10_Witness ==
    /\ ChangeCalled /\ outcome = "ok" /\ pc = "idle"
    /\ lastCall.stateStr = <<"a">>
    /\ Len(DefaultEnterNodes) = 2
    /\ Height(tree, TargetDescr) = 2

\* The cap of DefaultStep never stops the loop.
CapNotReached == pc = "defaults" => ENABLED DefaultStep

\* The index of the first segment of descr that names no registered child.
FirstUnresolved(t, descr) ==
    CHOOSE j \in 1..Len(descr) :
        /\ ~Registered(t, Node(descr, j))
        /\ \A h \in 1..(j - 1) : Registered(t, Node(descr, h))

\* C12: a changeState that fails with the unknown-child error in its enter
\* phase is not transactional: its invocations are exactly the exits of the
\* nodes of the current path beyond the change level (of all its nodes with
\* forceAll), deepest-first, followed by the enters of the resolved segments of
\* the target from the change level (from the first with forceAll) up to the
\* failing one; nothing is invoked afterwards to undo them, and the current
\* path stays as it was.
C12_Theorem ==
    (ChangeCalled /\ outcome = "UnknownSubstate") =>
        LET k    == CommonPrefixLen(prevPath, TargetDescr)
            from == IF lastCall.forceAll THEN 1 ELSE k + 1
            j    == FirstUnresolved(tree, TargetDescr)
        IN  /\ ~Resolves(tree, TargetDescr)
            /\ j >= from
            /\ NodesOf(log) = Reverse(NodesFrom(prevPath, from))
                                 \o NodesFrom(Node(TargetDescr, j - 1), from)
            /\ \A i \in 1..Len(log) :
                   IF i <= Len(prevPath) - (from - 1)
                   THEN IsExit(log[i]) ELSE IsTargetEnter(log[i])
            /\ currentPath = prevPath

\* C12 witness: changeState('a.a') from b with a registered and a.a not: b was
\* exited, a was entered, then the lookup of a.a threw.
C12_Witness ==
    /\ ChangeCalled /\ outcome = "UnknownSubstate" /\ ~lastCall.forceAll
    /\ prevPath = <<"b">>
    /\ lastCall.stateStr = <<"a", "a">>
    /\ NodesOf(log) = << <<"b">>, <<"a">> >>
    /\ IsExit(log[1]) /\ IsTargetEnter(log[2])
    /\ currentState = <<"b">>

\* The registered default child of node p, as a set (empty when p has none).
DefaultChildOf(t, p) ==
    LET c == t[p]._context
    IN  IF c.defined /\ c.defaultSubstate # Undefined
           /\ Registered(t, Append(p, c.defaultSubstate))
        THEN {Append(p, c.defaultSubstate)} ELSE {}

\* C14: in a successful changeState the cascade of defaults starts at the last
\* node of the target path only: the enters of the cascade are the nodes of
\* the final path below the target, each the default child of the one before;
\* the default child of a composite state the target passes through is not
\* entered and its name is not in the path (unless the target itself goes
\* through it); and the cascade stops at the first node without a default child.
C14_Theorem ==
    (ChangeCalled /\ outcome = "ok") =>
        LET n == Len(TargetDescr)
        IN  /\ Len(currentPath) >= n
            /\ Node(currentPath, n) = TargetDescr
            /\ DefaultEnterNodes = NodesFrom(currentPath, n + 1)
            /\ \A i \in n..(Len(currentPath) - 1) :
                   DefaultChildOf(tree, Node(currentPath, i)) = {Node(currentPath, i + 1)}
            /\ DefaultChildOf(tree, currentPath) = {}
            /\ \A i \in 1..(n - 1) :
                   \A d \in DefaultChildOf(tree, Node(TargetDescr, i)) :
                       d # Node(TargetDescr, i + 1) =>
                           /\ \A j \in 1..Len(log) : log[j].cb = "enter" => log[j].node # d
                           /\ Node(currentPath, i + 1) # d

\* C14 witness: with a defaulting to its registered child b, changeState('a.a')
\* from '' has entered a and a.a only and ended in 'a.a'.
C14_Witness ==
    /\ ChangeCalled /\ outcome = "ok"
    /\ prevPath = << >>
    /\ lastCall.stateStr = <<"a", "a">>
    /\ DefaultChildOf(tree, <<"a">>) = {<<"a", "b">>}
    /\ NodesOf(log) = << <<"a">>, <<"a", "a">> >>
    /\ currentState = <<"a", "a">>

\* What C15 says of a changeState whose target resolves to a node with a
\* defaultSubstate name.
UnresolvedDefaultIsNoDefault ==
    LET n     == Len(TargetDescr)
        child == Append(TargetDescr, tree[TargetDescr]._context.defaultSubstate)
    IN  IF ~Registered(tree, child)
        THEN /\ outcome = "ok"
             /\ DefaultEnterNodes = << >>
             /\ currentState = Join(TargetDescr)
        ELSE /\ Len(DefaultEnterNodes) >= 1 /\ DefaultEnterNodes[1] = child
             /\ Len(currentPath) > n /\ Node(currentPath, n + 1) = child

TargetNamesDefault ==
    /\ ChangeCalled /\ Resolves(tree, TargetDescr)
    /\ tree[TargetDescr]._context.defined
    /\ tree[TargetDescr]._context.defaultSubstate # Undefined

\* C15: a defaultSubstate name that is not a registered child of its node is
\* treated as no default: changeState to that node throws nothing, enters no
\* default and leaves currentState() at that node; once the child is
\* registered, changeState to the node enters the child and appends its name.
C15_Claim == TargetNamesDefault => UnresolvedDefaultIsNoDefault

\* C15, as far as the code goes: the same, for default names that no plain
\* object inherits from Object.prototype.
C15_OwnNames ==
    (/\ TargetNamesDefault
     /\ tree[TargetDescr]._context.defaultSubstate \notin ObjectPrototypeProps)
        => UnresolvedDefaultIsNoDefault

\* The cascade has thrown on an inherited default name.
C15_InheritedDefaultThrows ==
    /\ TargetNamesDefault
    /\ tree[TargetDescr]._context.defaultSubstate \in ObjectPrototypeProps
    /\ outcome = "TypeError"

\* C18: registerState, whether it returns or throws, invokes no enter and no
\* exit and leaves _currentStateDescr and currentState() as they were, also
\* when the new node lies under an active state or is the default substate of
\* the active leaf.
C18_Theorem ==
    RegisterCalled =>
        /\ log = << >>
        /\ currentPath = prevPath
        /\ currentState = Join(prevPath)

\* C18 witness: with a active and defaulting to b, a.b has been registered and
\* the current state is still 'a'.
C18_Witness ==
    /\ RegisterCalled /\ outcome = "ok"
    /\ lastCall.stateStr = <<"a", "b">>
    /\ ~Registered(prevTree, <<"a", "b">>)
    /\ DefaultChildOf(tree, <<"a">>) = {<<"a", "b">>}
    /\ currentState = <<"a">>

\* C18 again, for a registerState that threw under the active state.
C18_FailedWitness ==
    /\ RegisterCalled /\ outcome = "SubstateAlreadyExists"
    /\ lastCall.stateStr = <<"a", "b">>
    /\ currentState = <<"a">>

\* The nodes on a path.
NodeSet(path) == {Node(path, i) : i \in 1..Len(path)}

\* C16: over the sequences of registerState and changeState calls (with or
\* without forceAll) in which no changeState throws, after each call the
\* enter() and exit() invocations of every State have alternated, starting
\* with enter(), and the States entered more often than exited (those whose
\* last invocation was enter()) are exactly the nodes of the current path.
C16_Theorem ==
    ~failed => (alternates /\ active = NodeSet(currentPath))

\* C16 witness: after calls that all returned, a changeState with forceAll
\* from a.b (reached by the default of a) to a.a has left a and a.a entered.
C16_Witness ==
    /\ ~failed /\ alternates
    /\ ChangeCalled /\ lastCall.forceAll
    /\ prevPath = <<"a", "b">>
    /\ DefaultChildOf(tree, <<"a">>) = {<<"a", "b">>}
    /\ NodesOf(log) = << <<"a", "b">>, <<"a">>, <<"a">>, <<"a", "a">> >>
    /\ active = {<<"a">>, <<"a", "a">>}
    /\ currentState = <<"a", "a">>

\* C17: when a changeState has just returned, changeState(currentState())
\* with forceAll false, made as the very next call, returns too, invokes no
\* enter and no exit and leaves currentState() as it is: the whole active
\* path, names appended by the cascade included, is a fixed point.
C17_Theorem ==
    [][(/\ ChangeCalled /\ outcome = "ok"
        /\ lastCall'.method = "changeState"
        /\ lastCall'.stateStr = currentState
        /\ ~lastCall'.forceAll)
          => (/\ outcome' = "ok"
              /\ log' = << >>
              /\ currentPath' = currentPath
              /\ Join(currentPath') = currentState)]_vars

\* C17 witness: changeState('a.b.b') has been called on the path a.b.b, whose
\* last two names the cascade of changeState('a') had appended, and has
\* invoked nothing.
C17_Witness ==
    /\ ChangeCalled /\ outcome = "ok" /\ ~lastCall.forceAll
    /\ lastCall.stateStr = <<"a", "b", "b">>
    /\ prevPath = <<"a", "b", "b">>
    /\ DefaultChain(tree, <<"a">>) = <<"b", "b">>
    /\ prevTree = tree
    /\ log = << >>
    /\ currentState = <<"a", "b", "b">>

\* A changeState call made by a callback, and the invocations the call of
\* depth 0 made itself.
IsNested(e) == e.cb = "changeState"
IsOwn(e) == e.cb \in {"enter", "exit"} /\ e.depth = 0
OwnExitNodes == NodesOf(SelectSeq(log, LAMBDA e : IsOwn(e) /\ IsExit(e)))
OwnTargetEnterNodes == NodesOf(SelectSeq(log, LAMBDA e : IsOwn(e) /\ IsTargetEnter(e)))
NestedCalls == {i \in 1..Len(log) : IsNested(log[i])}

\* What C11 requires of a changeState call made by a callback while a
\* changeState is in progress: it is not executed there (nothing is invoked
\* by it) and _currentStateDescr is after it what it was before it.
Rejected(i) ==
    /\ log[i].from = i
    /\ log[i].pathAfter = log[i].pathBefore

\* C11: a changeState call made from inside an enter or exit callback of a
\* changeState in progress is rejected or queued, not executed in the middle of
\* the outer transition, and does not alter _currentStateDescr under it.
C11_Claim == ChangeCalled => \A i \in NestedCalls : Rejected(i)

\* _currentStateDescr as the call of depth 0 leaves it, read off the log: the
\* calls made by its callbacks install their own paths; line 170 then assigns
\* the target, and each default entered pushes its name, after its enter() has
\* returned, onto whatever path is installed by then.  `sees` tells that every
\* call made by a callback began with the path installed at that moment.
RECURSIVE Replay(_, _)
Replay(i, st) ==
    IF i > Len(log)
    THEN [path |-> IF st.assigned THEN st.cur \o st.push ELSE TargetDescr,
          sees |-> st.sees]
    ELSE IF IsNested(log[i]) /\ log[i].depth = 1
    THEN Replay(i + 1, [st EXCEPT !.cur = log[i].pathAfter,
                                  !.sees = st.sees /\ log[i].pathBefore = st.cur])
    ELSE IF IsOwn(log[i]) /\ IsDefaultEnter(log[i])
    THEN Replay(i + 1, [st EXCEPT !.cur = IF st.assigned THEN st.cur \o st.push
                                          ELSE TargetDescr,
                                  !.push = <<log[i].node[Len(log[i].node)]>>,
                                  !.assigned = TRUE])
    ELSE Replay(i + 1, st)

\* The invocations made by the call logged at index i.
InvocationsOf(i) ==
    SelectSeq(SubSeq(log, log[i].from, i - 1), LAMBDA e : e.cb \in {"enter", "exit"})

\* C13: when callbacks of a changeState call changeState, each inner call runs
\* at once as a changeState on the path as it is at that moment and installs
\* its own path, while the outer call goes on with what it computed at its
\* start: it exits the nodes of the path it began with and enters the nodes of
\* its target from its change level, assigns its target over whatever the
\* inner calls installed, and pushes the names of its defaults onto whatever
\* is installed by then.
C13_Theorem ==
    (ChangeCalled /\ outcome = "ok") =>
        LET k    == CommonPrefixLen(prevPath, TargetDescr)
            from == IF lastCall.forceAll THEN 1 ELSE k + 1
            end  == Replay(1, [cur |-> prevPath, push |-> << >>,
                               assigned |-> FALSE, sees |-> TRUE])
        IN  /\ OwnExitNodes = Reverse(NodesFrom(prevPath, from))
            /\ OwnTargetEnterNodes = NodesFrom(TargetDescr, from)
            /\ end.sees
            /\ currentPath = end.path
            /\ \A i \in NestedCalls :
                   log[i].depth = MaxDepth =>
                       LET r == changeState(tree, log[i].pathBefore, log[i].stateStr, FALSE)
                       IN  /\ log[i].thrown = r.thrown
                           /\ log[i].pathAfter = r.currentPath
                           /\ NodesOf(InvocationsOf(i)) = NodesOf(r.log)
                           /\ \A j \in 1..Len(r.log) : InvocationsOf(i)[j].cb = r.log[j].cb

\* C13 witness: no call has thrown; changeState('a') from '' with a's enter
\* callback calling changeState('b') has returned with currentState() 'a',
\* while a and b are both entered and not exited.
C13_Witness ==
    /\ ~failed /\ alternates
    /\ ChangeCalled /\ outcome = "ok"
    /\ prevPath = << >>
    /\ lastCall.stateStr = <<"a">>
    /\ NestedCalls # {}
    /\ currentState = <<"a">>
    /\ active = {<<"a">>, <<"b">>}
    /\ active # NodeSet(currentPath)

\* C13 again: the default's name pushed onto the path an inner call installed
\* leaves a path that is no walk of the tree.
C13_PushWitness ==
    /\ ChangeCalled /\ outcome = "ok"
    /\ lastCall.stateStr = <<"a">>
    /\ currentPath = <<"b", "b">>
    /\ ~Resolves(tree, currentPath)

\* C13 again: an exit callback's inner call has exited a node that the outer
\* call then exits once more.
C13_ExitWitness ==
    /\ ChangeCalled /\ outcome = "ok" /\ ~failed
    /\ prevPath = <<"a", "b">>
    /\ lastCall.stateStr = EmptyStr
    /\ NestedCalls # {}
    /\ ~alternates

====
